---- MODULE Spec2Model ----
(***************************************************************************)
(* A model of the wearable companion runtime:                              *)
(*   - src/src/inputs/base_input.py: InputData, BaseInput (the data cache, *)
(*     the start/stop lifecycle and the asyncio update loop), with the     *)
(*     clock source of src/src/inputs/time_input.py as the capability;     *)
(*   - src/src/display/display_controller.py: DisplayController (show_text,*)
(*     clear and the timed presentation task).                             *)
(*                                                                         *)
(* asyncio is cooperative: code between two suspension points (an await    *)
(* that really suspends: asyncio.sleep, the abstract _fetch_data) runs     *)
(* atomically.  One action of the model is one such atomic stretch.        *)
(*                                                                         *)
(* Time of the input subsystem is counted in ticks of 10 seconds           *)
(* (Seconds(s) converts); optional values (None or a value) are sequences  *)
(* of length 0 or 1.  Python's leading underscores are dropped from names. *)
(***************************************************************************)
EXTENDS Integers, Sequences, FiniteSets, TLC

\* ------------------------------------------------------------------ bounds
\* Last tick of the data-cache specification (SpecData).
DataHorizon == 1
\* Last tick of the update-loop specification (SpecLoop).
LoopHorizon == 4
\* Last tick of the clock-source specification (SpecClock): past the expiry
\* of a display_time record fetched at tick 0.
ClockHorizon == 7
\* Largest time to live, in ticks, of a record added by an external caller.
MaxTTL == 0
\* Number of add_data calls external callers make in one behaviour.
MaxAdds == 2
\* Number of update-loop tasks start() may create in one behaviour.
MaxLoops == 2
\* Number of timed presentation tasks show_text may create in one behaviour.
MaxTasks == 2
\* Longest duration, in ticks, of a timed presentation.
MaxDuration == 2
\* The cleanup hook's calls since the latest start() are counted up to here.
MaxCleanups == 2
\* Number of callbacks add_data_listener may register in one behaviour.
MaxListeners == 2
\* The lines of a text are at most MaxLines; a line's bounding box starts at
\* most MaxBearing pixels right of the drawing origin.
MaxLines == 5
MaxBearing == 1
\* config['max_errors'] (default 5) and config['update_interval'], in ticks.
max_errors == 2
update_interval == 2

\* ------------------------------------------------------------ basic values
None == <<>>
Some(v) == <<v>>
Min(a, b) == IF a <= b THEN a ELSE b
Max(a, b) == IF a >= b THEN a ELSE b
\* A duration of s seconds, in ticks of 10 seconds.
Seconds(s) == s \div 10

name == "time_input"
Sources == {name, "other"}
Kinds == {"time", "display_time"}

\* asyncio.sleep(min(self.update_interval, 10)) and asyncio.sleep(30)
SLEEP_CEILING == Seconds(10)
\* A backoff no longer than the regular sleep.
REGULAR_SLEEP == Min(update_interval, SLEEP_CEILING)
ERROR_BACKOFF == Seconds(30)

VARIABLES
    \* ---- BaseInput
    now,            \* datetime.now(), in ticks
    enabled,        \* self.enabled
    running,        \* self.running
    last_update,    \* self.last_update: None or Some(tick)
    error_count,    \* self.error_count
    current_data,   \* self.current_data: sequence of InputData
    loops,          \* the tasks created by start(): sequence of [pc, wake]
    \* ---- history of the input subsystem (not program state)
    lastAdded,      \* per (source, kind): the record of the latest add_data
    consecFails,    \* fetch failures since the last successful fetch
    resetFrom,      \* consecFails at the time of the last successful fetch
    lastOp,         \* the operation that made the last step
    added,          \* add_data calls made by external callers so far
    pruned,         \* records removed by the pruning pass of the last step
    cleanups,       \* calls of _cleanup since the latest start() that ran
    \* ---- BaseInput: listeners
    data_listeners, \* self.data_listeners: sequence of callbacks
    callbacks,      \* tasks created for coroutine callbacks, not yet run
    \* ---- history of the listeners (not program state)
    fanout,         \* the callback invocations made by the last step, in order
    logged,         \* error-log entries written by the last step
    raised,         \* TRUE if add_data raised in the last step
    lastInit,       \* the latest call of initialize(): [attempts, ok, raised]
    \* ---- a caller of get_current_data
    snapshot,       \* the list it was returned: None or Some([items, same]),
                    \* same = the list is the object self.current_data names
    \* ---- DisplayController
    screen,         \* what the device shows: "blank" or a text
    tasks,          \* the tasks created by show_text: [text, duration, pc, remaining]
    current_task,   \* self.current_task: 0 (None) or an index of tasks
    brightness,     \* self.brightness
    contrast,       \* the device's contrast: None without a device, or Some(level)
    \* ---- history of the display (not program state)
    lastCall,       \* the latest call of show_text, clear or shutdown
    atReturn,       \* TRUE in the state a call of show_text or clear returns in
    lastLevel,      \* the argument of the latest set_brightness: None or Some(level)
    paintError,     \* who got the exception of the latest failed paint
    \* ---- DisplayController._draw_text
    canvas          \* one call: its arguments and the draw.text calls it made

inputVars == <<now, enabled, running, last_update, error_count, current_data,
               loops, lastAdded, consecFails, resetFrom, lastOp, pruned,
               added, cleanups, data_listeners, callbacks, fanout, logged,
               raised, lastInit, snapshot>>
deviceVars == <<brightness, contrast, lastLevel, paintError>>
displayVars == <<screen, tasks, current_task, lastCall, atReturn, deviceVars,
                 canvas>>
vars == <<inputVars, displayVars>>

\* The display's size in pixels, and the line height _draw_text assumes.
width == 128
height == 64
LINE_HEIGHT == 15

\* set_brightness keeps the level within the device's range.
BRIGHTNESS_MIN == 0
BRIGHTNESS_MAX == 255

\* ---------------------------------------------------------------- InputData
\* InputData: content and priority are opaque to BaseInput and left out.
InputData(source, data_type, timestamp, expires_at) ==
    [source |-> source, data_type |-> data_type,
     timestamp |-> timestamp, expires_at |-> expires_at]

\* InputData.is_expired, read at time t.
is_expired(data, t) ==
    IF data.expires_at = None THEN FALSE ELSE t > data.expires_at[1]

\* ------------------------------------------------------- BaseInput: the cache
\* A pruning pass that keeps everything.
clean_nothing(data, t) == data

\* _clean_expired_data: the new value of current_data.
clean_expired_data(data, t) ==
    SelectSeq(data, LAMBDA d : ~is_expired(d, t))

\* add_data that forgets to remove the record it supersedes.
append_only(data, rec) == Append(data, rec)

\* add_data: the new value of current_data.  (_notify_listeners, which it
\* calls last, invokes the callbacks and changes no field of BaseInput.)
add_data(data, rec) ==
    Append(SelectSeq(data, LAMBDA d : ~(d.source = rec.source
                                        /\ d.data_type = rec.data_type)),
           rec)

\* ---------------------------------------------------- BaseInput: listeners
\* A registered callback: a coroutine function (async) or a plain function;
\* fails tells whether running it raises an Exception.
Callback(async, fails) == [async |-> async, fails |-> fails]
Callbacks == {Callback(a, f) : a \in BOOLEAN, f \in BOOLEAN}

\* add_data_listener(callback)
add_data_listener(listeners, callback) == Append(listeners, callback)

\* The invocation of listener i with record rec while the cache holds data.
Call(i, rec, data) == [listener |-> i, data |-> rec, current |-> data]

\* What one pass over the listeners has done so far: the invocations made,
\* the listeners a task was created for, the errors logged, and whether an
\* exception left the pass.
Notified(calls, spawned, errors, exc) ==
    [calls |-> calls, spawned |-> spawned, logged |-> errors, raised |-> exc]

\* A pass over the listeners without the try/except: the first plain callback
\* that raises ends the pass, and the exception leaves it.
RECURSIVE notify_unprotected_from(_, _, _, _, _)
notify_unprotected_from(listeners, rec, data, i, acc) ==
    IF i > Len(listeners)
    THEN acc
    ELSE LET calls == Append(acc.calls, Call(i, rec, data))
         IN IF listeners[i].async
            THEN notify_unprotected_from(listeners, rec, data, i + 1,
                     Notified(calls, Append(acc.spawned, i), acc.logged, FALSE))
            ELSE IF listeners[i].fails
            THEN Notified(calls, acc.spawned, acc.logged, TRUE)
            ELSE notify_unprotected_from(listeners, rec, data, i + 1,
                     Notified(calls, acc.spawned, acc.logged, FALSE))

notify_unprotected(listeners, rec, data) ==
    notify_unprotected_from(listeners, rec, data, 1, Notified(<<>>, <<>>, 0, FALSE))

\* A pass over the listeners that invokes only the first of them.
notify_first_only(listeners, rec, data) ==
    IF listeners = <<>>
    THEN Notified(<<>>, <<>>, 0, FALSE)
    ELSE Notified(<<Call(1, rec, data)>>,
                  IF listeners[1].async THEN <<1>> ELSE <<>>,
                  IF ~listeners[1].async /\ listeners[1].fails THEN 1 ELSE 0,
                  FALSE)

\* _notify_listeners(rec), from listener i on: a coroutine callback is called
\* and a task is created for the coroutine; a plain callback is called, and
\* an Exception it raises is caught and logged.
RECURSIVE notify_from(_, _, _, _, _)
notify_from(listeners, rec, data, i, acc) ==
    IF i > Len(listeners)
    THEN acc
    ELSE LET calls == Append(acc.calls, Call(i, rec, data))
         IN IF listeners[i].async
            THEN notify_from(listeners, rec, data, i + 1,
                     Notified(calls, Append(acc.spawned, i), acc.logged, FALSE))
            ELSE IF listeners[i].fails
            THEN notify_from(listeners, rec, data, i + 1,
                     Notified(calls, acc.spawned, acc.logged + 1, FALSE))
            ELSE notify_from(listeners, rec, data, i + 1,
                     Notified(calls, acc.spawned, acc.logged, FALSE))

\* _notify_listeners(rec), called by add_data once the cache holds data.
notify_listeners(listeners, rec, data) ==
    notify_from(listeners, rec, data, 1, Notified(<<>>, <<>>, 0, FALSE))

\* Two passes one after the other; the second is not made if the first raised.
then_notify(first, second) ==
    IF first.raised
    THEN first
    ELSE Notified(first.calls \o second.calls, first.spawned \o second.spawned,
                  first.logged + second.logged, second.raised)

\* get_current_data(data_type): data_type is None or Some(kind).
get_current_data(data, data_type) ==
    IF data_type # None
    THEN SelectSeq(data, LAMBDA d : d.data_type = data_type[1])
    ELSE data

\* Python's max(seq, key=lambda x: x.timestamp): the first of several maxima.
max_by_timestamp(s) ==
    LET i == CHOOSE i \in 1..Len(s) :
                 /\ \A j \in 1..Len(s) : s[j].timestamp <= s[i].timestamp
                 /\ \A j \in 1..(i-1) : s[j].timestamp < s[i].timestamp
    IN s[i]

\* get_latest_data(data_type): None or Some(record).
get_latest_data(data, data_type) ==
    LET filtered_data == get_current_data(data, Some(data_type))
    IN IF filtered_data = <<>> THEN None ELSE Some(max_by_timestamp(filtered_data))

Range(s) == {s[i] : i \in 1..Len(s)}

\* The list a caller of get_current_data(data_type) holds: its items, and
\* whether it is the very object self.current_data names.
ListRef(items, same) == [items |-> items, same |-> same]

\* get_current_data returning self.current_data itself when there is no filter.
read_alias(data, data_type) ==
    ListRef(get_current_data(data, data_type), data_type = None)

\* get_current_data builds its result: a comprehension with a data_type, and
\* self.current_data.copy() without one; either is a new list.
read_current_data(data, data_type) ==
    ListRef(get_current_data(data, data_type), FALSE)

\* _clean_expired_data and add_data assign a new list to self.current_data
\* (add_data appends to that new list): the list object a caller holds keeps
\* its items and is no longer the one self.current_data names.
rebound(snap) ==
    IF snap = None THEN None ELSE Some(ListRef(snap[1].items, FALSE))

\* ------------------------------------------------- the clock source (TimeInput)
\* TimeInput._fetch_data with include_date off: it adds a "time" record that
\* expires in 2 minutes and a "display_time" record that expires in 1 minute,
\* both created at t.
fetch_data(data, t) ==
    LET time_data == InputData(name, "time", t, Some(t + Seconds(120)))
        display_data == InputData(name, "display_time", t, Some(t + Seconds(60)))
    IN add_data(add_data(data, time_data), display_data)

\* The listener passes of the two add_data calls that fetch_data makes.
fetch_notified(listeners, data, t) ==
    LET time_data == InputData(name, "time", t, Some(t + Seconds(120)))
        display_data == InputData(name, "display_time", t, Some(t + Seconds(60)))
        first == add_data(data, time_data)
    IN then_notify(notify_listeners(listeners, time_data, first),
                   notify_listeners(listeners, display_data,
                                    add_data(first, display_data)))

\* The history of add_data calls that fetch_data makes.
fetch_added(last, t) ==
    [last EXCEPT ![<<name, "time">>] =
                     Some(InputData(name, "time", t, Some(t + Seconds(120)))),
                 ![<<name, "display_time">>] =
                     Some(InputData(name, "display_time", t, Some(t + Seconds(60))))]

\* ------------------------------------------------ BaseInput: initialize
\* initialize() that tries the setup a second time and swallows the error.
initialize_retrying(ok) ==
    [attempts |-> IF ok THEN 1 ELSE 2, ok |-> ok, raised |-> FALSE]

\* initialize(): one `await self._initialize()`; an Exception it raises is
\* logged and raised again.  ok tells whether the subclass's setup succeeds.
initialize(ok) == [attempts |-> 1, ok |-> ok, raised |-> ~ok]

\* ------------------------------------------------------ BaseInput: the loop
\* _should_update
should_update(last, t) ==
    IF last = None THEN TRUE ELSE t - last[1] >= update_interval

\* The fail-stop test with > for >=.
max_errors_exceeded(count) == count > max_errors

\* if self.error_count >= self.max_errors
max_errors_reached(count) == count >= max_errors

\* A successful update that keeps the error count.
keep_error_count(count) == count

\* self.error_count = 0  # Reset error count on successful update
reset_error_count(count) == 0

Loop(pc, wake) == [pc |-> pc, wake |-> wake]

\* The loop task after a failure at time t that left the runtime running:
\* await asyncio.sleep(30). The record also notes (history, not program
\* state) whether an update was due when the fetch failed.
Backoff(t, last) ==
    [pc |-> "backoff", wake |-> t + ERROR_BACKOFF, due |-> should_update(last, t)]

\* ------------------------------------------------------------------- Init
InitInput ==
    /\ now = 0
    /\ enabled \in BOOLEAN
    /\ running = FALSE
    /\ last_update = None
    /\ error_count = 0
    /\ current_data = <<>>
    /\ loops = <<>>
    /\ lastAdded = [p \in Sources \X Kinds |-> None]
    /\ consecFails = 0
    /\ resetFrom = 0
    /\ lastOp = "init"
    /\ pruned = 0
    /\ added = 0
    /\ cleanups = 0
    /\ data_listeners = <<>>
    /\ callbacks = <<>>
    /\ fanout = <<>>
    /\ logged = 0
    /\ raised = FALSE
    /\ lastInit = [attempts |-> 0, ok |-> TRUE, raised |-> FALSE]
    /\ snapshot = None

\* DisplayController after __init__ and initialize(): brightness is
\* config['brightness'] (255 by default), and there is a device (whose
\* contrast initialize() sets to self.brightness) or, in simulation, none.
InitController(device) ==
    /\ screen = "blank"
    /\ tasks = <<>>
    /\ current_task = 0
    /\ lastCall = [op |-> "none", text |-> "", duration |-> None]
    /\ atReturn = FALSE
    /\ brightness = BRIGHTNESS_MAX
    /\ contrast = IF device THEN Some(brightness) ELSE None
    /\ lastLevel = None
    /\ paintError = "none"

InitDisplay == InitController(TRUE)

\* _draw_text has not been called.
InitCanvas ==
    canvas = [lines |-> <<>>, position |-> None, center |-> TRUE,
              drawn |-> <<>>, returned |-> FALSE]

Init == InitInput /\ InitDisplay /\ InitCanvas

\* The data cache is exercised on an enabled runtime.
InitData == Init /\ enabled = TRUE

\* ------------------------------------------------------ actions: listeners
\* A step that calls no listener and logs no error.
NoFanout ==
    /\ fanout' = <<>>
    /\ logged' = 0
    /\ raised' = FALSE
    /\ UNCHANGED <<data_listeners, callbacks>>

\* A step whose listener passes came out as res: a task is pending for every
\* coroutine callback that was called.
Fanout(res) ==
    /\ fanout' = res.calls
    /\ logged' = res.logged
    /\ raised' = res.raised
    /\ callbacks' = callbacks \o res.spawned
    /\ UNCHANGED data_listeners

\* --------------------------------------------------- actions: the data cache
\* The clock advances by one tick, up to the horizon of the specification.
Tick(horizon) ==
    /\ now < horizon
    /\ now' = now + 1
    /\ lastOp' = "tick"
    /\ UNCHANGED added
    /\ pruned' = 0
    /\ UNCHANGED <<enabled, running, last_update, error_count, current_data,
                   loops, lastAdded, consecFails, resetFrom>>
    /\ UNCHANGED cleanups
    /\ NoFanout
    /\ UNCHANGED lastInit
    /\ UNCHANGED snapshot
    /\ UNCHANGED displayVars

\* A caller (a fetch step, or any other code) calls add_data(rec).
AddData(rec) ==
    /\ added < MaxAdds
    /\ added' = added + 1
    /\ current_data' = add_data(current_data, rec)
    /\ lastAdded' = [lastAdded EXCEPT ![<<rec.source, rec.data_type>>] = Some(rec)]
    /\ lastOp' = "add_data"
    /\ pruned' = 0
    /\ Fanout(notify_listeners(data_listeners, rec, current_data'))
    /\ UNCHANGED <<now, enabled, running, last_update, error_count, loops,
                   consecFails, resetFrom>>
    /\ UNCHANGED cleanups
    /\ UNCHANGED lastInit
    /\ snapshot' = rebound(snapshot)
    /\ UNCHANGED displayVars

\* The records an external caller may add at time t: any source and kind,
\* created now or earlier, with or without an expiry.
NewRecords(t) ==
    {InputData(s, k, ts, e) :
        s \in Sources, k \in Kinds, ts \in 0..t,
        e \in {None} \cup {Some(t + d) : d \in 0..MaxTTL}}

\* A pruning pass: one call of _clean_expired_data.
CleanExpired ==
    /\ current_data' = clean_expired_data(current_data, now)
    /\ pruned' = Len(current_data) - Len(current_data')
    /\ lastOp' = "clean"
    /\ UNCHANGED added
    /\ UNCHANGED <<now, enabled, running, last_update, error_count, loops,
                   lastAdded, consecFails, resetFrom>>
    /\ UNCHANGED cleanups
    /\ NoFanout
    /\ UNCHANGED lastInit
    /\ snapshot' = rebound(snapshot)
    /\ UNCHANGED displayVars

NextData ==
    \/ \E rec \in NewRecords(now) : AddData(rec)
    \/ CleanExpired
    \/ Tick(DataHorizon)

SpecData == InitData /\ [][NextData]_vars

\* ------------------------------------------------ actions: start, stop, loop
\* start() without the `if not self.enabled` test.
StartAlways ==
    /\ lastOp' = "start"
    /\ pruned' = 0
    /\ Len(loops) < MaxLoops
    /\ running' = TRUE
    /\ loops' = Append(loops, Loop("ready", 0))
    /\ cleanups' = 0
    /\ UNCHANGED <<now, enabled, last_update, error_count, current_data,
                   lastAdded, consecFails, resetFrom, added>>
    /\ NoFanout
    /\ UNCHANGED lastInit
    /\ UNCHANGED snapshot
    /\ UNCHANGED displayVars

\* start(): a no-op when disabled; otherwise running = True and a new task
\* running _update_loop is created (it runs when the event loop next turns).
Start ==
    /\ lastOp' = "start"
    /\ pruned' = 0
    /\ IF ~enabled
       THEN UNCHANGED <<running, loops, cleanups>>
       ELSE /\ Len(loops) < MaxLoops
            /\ running' = TRUE
            /\ loops' = Append(loops, Loop("ready", 0))
            /\ cleanups' = 0
    /\ UNCHANGED <<now, enabled, last_update, error_count, current_data,
                   lastAdded, consecFails, resetFrom, added>>
    /\ NoFanout
    /\ UNCHANGED lastInit
    /\ UNCHANGED snapshot
    /\ UNCHANGED displayVars

\* stop(): running = False, then await self._cleanup() (the clock source's
\* hook only logs).
Stop ==
    /\ running' = FALSE
    /\ cleanups' = Min(cleanups + 1, MaxCleanups)
    /\ lastOp' = "stop"
    /\ pruned' = 0
    /\ UNCHANGED <<now, enabled, last_update, error_count, current_data, loops,
                   lastAdded, consecFails, resetFrom, added>>
    /\ NoFanout
    /\ UNCHANGED lastInit
    /\ UNCHANGED snapshot
    /\ UNCHANGED displayVars

\* The loop task l is about to evaluate `while self.running`: it was just
\* created, or the sleep it was suspended in is over.
Resumable(l) ==
    \/ loops[l].pc = "ready"
    \/ loops[l].pc \in {"sleeping", "backoff"} /\ now >= loops[l].wake

\* await asyncio.sleep(min(self.update_interval, 10)), begun at time t
Sleeping(t) == Loop("sleeping", t + Min(update_interval, SLEEP_CEILING))

\* `while self.running` is false: the loop task ends.
LoopExit(l) ==
    /\ Resumable(l)
    /\ ~running
    /\ loops' = [loops EXCEPT ![l] = Loop("exited", 0)]
    /\ lastOp' = "loop_exit"
    /\ pruned' = 0
    /\ UNCHANGED <<now, enabled, running, last_update, error_count, current_data,
                   lastAdded, consecFails, resetFrom, added>>
    /\ UNCHANGED cleanups
    /\ NoFanout
    /\ UNCHANGED lastInit
    /\ UNCHANGED snapshot
    /\ UNCHANGED displayVars

\* A loop that calls _fetch_data without testing self.running.
BeginFetchWhenStopped(l) ==
    /\ Resumable(l)
    /\ should_update(last_update, now)
    /\ loops' = [loops EXCEPT ![l] = Loop("fetching", 0)]
    /\ lastOp' = "fetch_begin"
    /\ pruned' = 0
    /\ UNCHANGED <<now, enabled, running, last_update, error_count, current_data,
                   lastAdded, consecFails, resetFrom, added>>
    /\ UNCHANGED cleanups
    /\ NoFanout
    /\ UNCHANGED lastInit
    /\ UNCHANGED snapshot
    /\ UNCHANGED displayVars

\* running and _should_update(): the loop calls _fetch_data, which may suspend.
LoopBeginFetch(l) ==
    /\ Resumable(l)
    /\ running
    /\ should_update(last_update, now)
    /\ loops' = [loops EXCEPT ![l] = Loop("fetching", 0)]
    /\ lastOp' = "fetch_begin"
    /\ pruned' = 0
    /\ UNCHANGED <<now, enabled, running, last_update, error_count, current_data,
                   lastAdded, consecFails, resetFrom, added>>
    /\ UNCHANGED cleanups
    /\ NoFanout
    /\ UNCHANGED lastInit
    /\ UNCHANGED snapshot
    /\ UNCHANGED displayVars

\* running and no update due: prune, then sleep.
LoopIdleCycle(l) ==
    /\ Resumable(l)
    /\ running
    /\ ~should_update(last_update, now)
    /\ current_data' = clean_expired_data(current_data, now)
    /\ pruned' = Len(current_data) - Len(current_data')
    /\ loops' = [loops EXCEPT ![l] = Sleeping(now)]
    /\ lastOp' = "loop_idle"
    /\ UNCHANGED <<now, enabled, running, last_update, error_count, lastAdded,
                   consecFails, resetFrom, added>>
    /\ UNCHANGED cleanups
    /\ NoFanout
    /\ UNCHANGED lastInit
    /\ snapshot' = rebound(snapshot)
    /\ UNCHANGED displayVars

\* An exception leaves _fetch_data in loop task l: error_count += 1; at
\* max_errors running = False and break, otherwise await asyncio.sleep(30).
FetchRaises(l) ==
    /\ error_count' = error_count + 1
    /\ consecFails' = consecFails + 1
    /\ IF max_errors_reached(error_count')
       THEN /\ running' = FALSE
            /\ loops' = [loops EXCEPT ![l] = Loop("exited", 0)]
       ELSE /\ running' = running
            /\ loops' = [loops EXCEPT ![l] = Backoff(now, last_update)]
    /\ lastOp' = "fetch_fail"
    /\ pruned' = 0
    /\ UNCHANGED <<now, enabled, last_update, current_data, lastAdded, resetFrom,
                   added>>
    /\ UNCHANGED cleanups
    /\ UNCHANGED lastInit
    /\ UNCHANGED snapshot
    /\ UNCHANGED displayVars

\* _fetch_data runs to its end: it adds its records, and every add_data
\* notifies the listeners.  When it returns, last_update = now,
\* error_count = 0, prune, sleep; an exception that left add_data would
\* leave _fetch_data too.
FetchSucceed(l) ==
    /\ loops[l].pc = "fetching"
    /\ LET res == fetch_notified(data_listeners, current_data, now)
       IN /\ Fanout(res)
          /\ IF res.raised
             THEN FetchRaises(l)
             ELSE /\ LET fetched == fetch_data(current_data, now)
                     IN /\ current_data' = clean_expired_data(fetched, now)
                        /\ pruned' = Len(fetched) - Len(current_data')
                  /\ lastAdded' = fetch_added(lastAdded, now)
                  /\ last_update' = Some(now)
                  /\ error_count' = reset_error_count(error_count)
                  /\ consecFails' = 0
                  /\ resetFrom' = consecFails
                  /\ loops' = [loops EXCEPT ![l] = Sleeping(now)]
                  /\ lastOp' = "fetch_ok"
                  /\ UNCHANGED <<now, enabled, running, added>>
                  /\ UNCHANGED cleanups
                  /\ UNCHANGED lastInit
                  /\ snapshot' = rebound(snapshot)
                  /\ UNCHANGED displayVars

\* _fetch_data itself raises.
FetchFail(l) ==
    /\ loops[l].pc = "fetching"
    /\ FetchRaises(l)
    /\ NoFanout

NextLoop ==
    \/ Start
    \/ Stop
    \/ \E l \in 1..Len(loops) : LoopExit(l)
    \/ \E l \in 1..Len(loops) : LoopBeginFetch(l)
    \/ \E l \in 1..Len(loops) : LoopIdleCycle(l)
    \/ \E l \in 1..Len(loops) : FetchSucceed(l)
    \/ \E l \in 1..Len(loops) : FetchFail(l)
    \/ Tick(LoopHorizon)

SpecLoop == Init /\ [][NextLoop]_vars

\* initialize(), with a setup that succeeds or fails.
Initialize(ok) ==
    /\ lastInit' = initialize(ok)
    /\ UNCHANGED snapshot
    /\ lastOp' = "initialize"
    /\ pruned' = 0
    /\ NoFanout
    /\ UNCHANGED <<now, enabled, running, last_update, error_count, current_data,
                   loops, lastAdded, consecFails, resetFrom, added, cleanups>>
    /\ UNCHANGED displayVars

NextInit ==
    \/ \E ok \in BOOLEAN : Initialize(ok)
    \/ NextLoop

SpecInit == Init /\ [][NextInit]_vars

\* A caller reads the collection: get_current_data(data_type).
Read(data_type) ==
    /\ snapshot' = Some(read_current_data(current_data, data_type))
    /\ lastOp' = "read"
    /\ pruned' = 0
    /\ NoFanout
    /\ UNCHANGED <<now, enabled, running, last_update, error_count, current_data,
                   loops, lastAdded, consecFails, resetFrom, added, cleanups,
                   lastInit>>
    /\ UNCHANGED displayVars

\* What a caller can do to a list it holds: clear() it, or pop its first item.
ListChanges(items) == {<<>>, Tail(items)}

\* The caller changes the list it was returned; a list that is the object
\* self.current_data names is the runtime's collection.
CallerChanges ==
    /\ snapshot # None
    /\ snapshot[1].items # <<>>
    /\ \E items \in ListChanges(snapshot[1].items) :
          /\ snapshot' = Some(ListRef(items, snapshot[1].same))
          /\ current_data' = IF snapshot[1].same THEN items ELSE current_data
    /\ lastOp' = "caller_change"
    /\ pruned' = 0
    /\ NoFanout
    /\ UNCHANGED <<now, enabled, running, last_update, error_count, loops,
                   lastAdded, consecFails, resetFrom, added, cleanups, lastInit>>
    /\ UNCHANGED displayVars

\* The records of another source, created at t, that expire at once.
ShortLived(t) ==
    {rec \in NewRecords(t) :
        rec.source # name /\ rec.timestamp = t /\ rec.expires_at = Some(t)}

\* The clock source with its loop, whose fetches add records and whose cycles
\* prune, a caller that adds short-lived records of another source, and a
\* caller that reads the collection and changes the list it got, followed
\* over the first sleep of the loop.
NextRead ==
    \/ \E f \in {None} \cup {Some(k) : k \in Kinds} : Read(f)
    \/ CallerChanges
    \/ \E rec \in ShortLived(now) : AddData(rec)
    \/ Start
    \/ \E l \in 1..Len(loops) : LoopBeginFetch(l)
    \/ \E l \in 1..Len(loops) : LoopIdleCycle(l)
    \/ \E l \in 1..Len(loops) : FetchSucceed(l)
    \/ Tick(SLEEP_CEILING)

SpecRead == InitData /\ [][NextRead]_vars

\* The clock source, started and stopped by its owner, followed for as long
\* as the records of its first fetch live.
NextClock ==
    \/ Start
    \/ Stop
    \/ \E l \in 1..Len(loops) : LoopExit(l)
    \/ \E l \in 1..Len(loops) : LoopBeginFetch(l)
    \/ \E l \in 1..Len(loops) : LoopIdleCycle(l)
    \/ \E l \in 1..Len(loops) : FetchSucceed(l)
    \/ \E l \in 1..Len(loops) : FetchFail(l)
    \/ Tick(ClockHorizon)

SpecClock == InitData /\ [][NextClock]_vars

\* ------------------------------------------- actions: listeners and callbacks
\* add_data_listener(callback)
AddListener(callback) ==
    /\ Len(data_listeners) < MaxListeners
    /\ data_listeners' = add_data_listener(data_listeners, callback)
    /\ fanout' = <<>>
    /\ logged' = 0
    /\ raised' = FALSE
    /\ lastOp' = "add_listener"
    /\ pruned' = 0
    /\ UNCHANGED <<now, enabled, running, last_update, error_count, current_data,
                   loops, lastAdded, consecFails, resetFrom, added, cleanups,
                   callbacks>>
    /\ UNCHANGED lastInit
    /\ UNCHANGED snapshot
    /\ UNCHANGED displayVars

\* The event loop runs the oldest task created for a coroutine callback.  If
\* the coroutine raises, the exception stays in the task, which nobody
\* awaits or holds: the event loop's exception handler logs it.
RunCallback ==
    /\ callbacks # <<>>
    /\ callbacks' = Tail(callbacks)
    /\ logged' = IF data_listeners[Head(callbacks)].fails THEN 1 ELSE 0
    /\ fanout' = <<>>
    /\ raised' = FALSE
    /\ lastOp' = "callback"
    /\ pruned' = 0
    /\ UNCHANGED <<now, enabled, running, last_update, error_count, current_data,
                   loops, lastAdded, consecFails, resetFrom, added, cleanups,
                   data_listeners>>
    /\ UNCHANGED lastInit
    /\ UNCHANGED snapshot
    /\ UNCHANGED displayVars

\* Callers register listeners and add records of their own.
NextNotify ==
    \/ \E callback \in Callbacks : AddListener(callback)
    \/ \E rec \in NewRecords(now) : AddData(rec)
    \/ RunCallback

SpecNotify == InitData /\ [][NextNotify]_vars

\* Callers register listeners beside a running update loop.
NextNotifyLoop ==
    \/ \E callback \in Callbacks : AddListener(callback)
    \/ RunCallback
    \/ Start
    \/ \E l \in 1..Len(loops) : LoopBeginFetch(l)
    \/ \E l \in 1..Len(loops) : LoopIdleCycle(l)
    \/ \E l \in 1..Len(loops) : FetchSucceed(l)
    \/ \E l \in 1..Len(loops) : FetchFail(l)

SpecNotifyLoop == InitData /\ [][NextNotifyLoop]_vars

\* ==================================================== DisplayController
Texts == {"A", "B"}
\* The duration argument of show_text: None, or a number of ticks.
Durations == {None} \cup {Some(d) : d \in 0..MaxDuration}

\* A test that takes every number, 0 included, for a duration.
is_not_None(duration) == duration # None

\* `if duration:` is false for None and for 0.
Truthy(duration) == duration # None /\ duration[1] # 0

\* A task running _show_text_with_duration. pc is "created" (scheduled by
\* create_task, not yet run), "sleeping" (in asyncio.sleep(duration), with
\* `remaining` ticks to go), "done", "cancelled" or "failed" (ended by an
\* exception). painted records that
\* _render_text has run.  A cancelled task is marked at once: asyncio raises
\* CancelledError in it before any more of its code runs, and cancel() on a
\* task already cancelled changes nothing.
Task(text, duration, pc, remaining, painted) ==
    [text |-> text, duration |-> duration, pc |-> pc,
     remaining |-> remaining, painted |-> painted]

\* task.done()
done(task) == task.pc \in {"done", "cancelled", "failed"}

\* show_text that leaves the current task running.
cancel_nothing(ts, i) == ts

\* A cancel() that comes too late for a task whose sleep is already over.
cancel_unless_due(ts, i) ==
    IF i # 0 /\ ~done(ts[i]) /\ ~(ts[i].pc = "sleeping" /\ ts[i].remaining = 0)
    THEN [ts EXCEPT ![i].pc = "cancelled"]
    ELSE ts

\* if self.current_task and not self.current_task.done():
\*     self.current_task.cancel()
cancel_current(ts, i) ==
    IF i # 0 /\ ~done(ts[i])
    THEN [ts EXCEPT ![i].pc = "cancelled"]
    ELSE ts

\* A timed presentation that ends without clearing.
leave_screen(scr) == scr

\* clear(): the device shows nothing.
clear(scr) == "blank"

\* _render_text(text, ...): the device shows text.
render_text(scr, text) == text

\* show_text(text, duration=duration)
ShowText(text, duration) ==
    /\ IF Truthy(duration)
       THEN /\ Len(tasks) < MaxTasks
            /\ tasks' = Append(cancel_current(tasks, current_task),
                               Task(text, duration[1], "created", duration[1], FALSE))
            /\ current_task' = Len(tasks) + 1
            /\ screen' = screen
       ELSE /\ tasks' = cancel_current(tasks, current_task)
            /\ current_task' = current_task
            /\ screen' = render_text(screen, text)
    /\ lastCall' = [op |-> "show_text", text |-> text, duration |-> duration]
    /\ atReturn' = TRUE
    /\ UNCHANGED deviceVars
    /\ UNCHANGED canvas
    /\ UNCHANGED inputVars

\* clear()
Clear ==
    /\ screen' = clear(screen)
    /\ lastCall' = [op |-> "clear", text |-> "", duration |-> None]
    /\ atReturn' = TRUE
    /\ UNCHANGED <<tasks, current_task>>
    /\ UNCHANGED deviceVars
    /\ UNCHANGED canvas
    /\ UNCHANGED inputVars

\* _show_text_with_duration, first step: render the text, begin the sleep.
TaskStart(i) ==
    /\ tasks[i].pc = "created"
    /\ screen' = render_text(screen, tasks[i].text)
    /\ tasks' = [tasks EXCEPT ![i].pc = "sleeping", ![i].painted = TRUE]
    /\ atReturn' = FALSE
    /\ UNCHANGED <<current_task, lastCall>>
    /\ UNCHANGED deviceVars
    /\ UNCHANGED canvas
    /\ UNCHANGED inputVars

\* _show_text_with_duration, second step: the sleep is over, clear.
TaskWake(i) ==
    /\ tasks[i].pc = "sleeping"
    /\ tasks[i].remaining = 0
    /\ screen' = clear(screen)
    /\ tasks' = [tasks EXCEPT ![i].pc = "done"]
    /\ atReturn' = FALSE
    /\ UNCHANGED <<current_task, lastCall>>
    /\ UNCHANGED deviceVars
    /\ UNCHANGED canvas
    /\ UNCHANGED inputVars

\* One tick of time passes: every sleeping task has one tick less to sleep.
TickDisplay ==
    /\ tasks' = [i \in 1..Len(tasks) |->
                    IF tasks[i].pc = "sleeping"
                    THEN [tasks[i] EXCEPT !.remaining = Max(0, @ - 1)]
                    ELSE tasks[i]]
    /\ atReturn' = FALSE
    /\ UNCHANGED <<screen, current_task, lastCall>>
    /\ UNCHANGED deviceVars
    /\ UNCHANGED canvas
    /\ UNCHANGED inputVars

TaskStep == \E i \in 1..Len(tasks) : TaskStart(i) \/ TaskWake(i)

NextDisplay ==
    \/ \E text \in Texts, duration \in Durations : ShowText(text, duration)
    \/ Clear
    \/ \E i \in 1..Len(tasks) : TaskStart(i)
    \/ \E i \in 1..Len(tasks) : TaskWake(i)
    \/ TickDisplay

\* The display is exercised beside an enabled runtime that is never started.
InitShow == Init /\ enabled = TRUE

SpecDisplay == InitShow /\ [][NextDisplay]_vars

\* The event loop runs every task that is ready, and time passes.
FairSpecDisplay ==
    SpecDisplay /\ WF_vars(TaskStep) /\ WF_vars(TickDisplay)

\* ------------------------------------------------------- actions: shutdown
\* shutdown(): cancel the current task if it is not done, clear, release
\* the GPIO pins.
Shutdown ==
    /\ tasks' = cancel_current(tasks, current_task)
    /\ screen' = clear(screen)
    /\ lastCall' = [op |-> "shutdown", text |-> "", duration |-> None]
    /\ atReturn' = TRUE
    /\ UNCHANGED current_task
    /\ UNCHANGED deviceVars
    /\ UNCHANGED canvas
    /\ UNCHANGED inputVars

NextShutdown ==
    \/ NextDisplay
    \/ Shutdown

SpecShutdown == InitShow /\ [][NextShutdown]_vars

\* ----------------------------------------------------- actions: brightness
\* The levels callers pass to set_brightness: below, at and above the ends of
\* the device's range, and one inside it.
Levels == {BRIGHTNESS_MIN - 1, BRIGHTNESS_MIN, BRIGHTNESS_MAX \div 2,
           BRIGHTNESS_MAX, BRIGHTNESS_MAX + 1}

\* set_brightness without the lower limit.
clamp_above_only(level) == Min(BRIGHTNESS_MAX, level)

\* max(0, min(255, brightness))
clamp_brightness(level) == Max(BRIGHTNESS_MIN, Min(BRIGHTNESS_MAX, level))

\* set_brightness(level)
SetBrightness(level) ==
    /\ brightness' = clamp_brightness(level)
    /\ contrast' = IF contrast # None THEN Some(brightness') ELSE contrast
    /\ lastLevel' = Some(level)
    /\ atReturn' = FALSE
    /\ UNCHANGED <<screen, tasks, current_task, lastCall, paintError>>
    /\ UNCHANGED canvas
    /\ UNCHANGED inputVars

\* Callers change the brightness between their calls of show_text and clear,
\* while a timed presentation is pending; the passing of time is left out.
NextBrightness ==
    \/ \E text \in Texts, duration \in Durations : ShowText(text, duration)
    \/ Clear
    \/ \E i \in 1..Len(tasks) : TaskStart(i)
    \/ \E level \in Levels : SetBrightness(level)

\* The controller drives a device or, in simulation, none.
InitBrightness ==
    /\ InitInput
    /\ enabled = TRUE
    /\ \E device \in BOOLEAN : InitController(device)
    /\ InitCanvas

SpecBrightness == InitBrightness /\ [][NextBrightness]_vars

\* --------------------------------------------------- actions: paint failures
\* show_text(text) without a duration, and the device fails while
\* _render_text paints: the exception leaves show_text.
ShowTextPaintFails(text) ==
    /\ tasks' = cancel_current(tasks, current_task)
    /\ paintError' = "caller"
    /\ lastCall' = [op |-> "show_text", text |-> text, duration |-> None]
    /\ atReturn' = FALSE
    /\ UNCHANGED <<screen, current_task, brightness, contrast, lastLevel>>
    /\ UNCHANGED canvas
    /\ UNCHANGED inputVars

\* clear(), and the device fails: the exception leaves clear.
ClearPaintFails ==
    /\ paintError' = "caller"
    /\ lastCall' = [op |-> "clear", text |-> "", duration |-> None]
    /\ atReturn' = FALSE
    /\ UNCHANGED <<screen, tasks, current_task, brightness, contrast, lastLevel>>
    /\ UNCHANGED canvas
    /\ UNCHANGED inputVars

\* _show_text_with_duration, first step, and the device fails while
\* _render_text paints: the exception ends the task and stays in it, since
\* show_text has returned and nobody awaits the task.
TaskStartPaintFails(i) ==
    /\ tasks[i].pc = "created"
    /\ tasks' = [tasks EXCEPT ![i].pc = "failed"]
    /\ paintError' = "task"
    /\ atReturn' = FALSE
    /\ UNCHANGED <<screen, current_task, lastCall, brightness, contrast, lastLevel>>
    /\ UNCHANGED canvas
    /\ UNCHANGED inputVars

\* _show_text_with_duration, second step, and the device fails while clear()
\* paints: the exception ends the task and stays in it.
TaskWakePaintFails(i) ==
    /\ tasks[i].pc = "sleeping"
    /\ tasks[i].remaining = 0
    /\ tasks' = [tasks EXCEPT ![i].pc = "failed"]
    /\ paintError' = "task"
    /\ atReturn' = FALSE
    /\ UNCHANGED <<screen, current_task, lastCall, brightness, contrast, lastLevel>>
    /\ UNCHANGED canvas
    /\ UNCHANGED inputVars

NextPaintFault ==
    \/ NextDisplay
    \/ \E text \in Texts : ShowTextPaintFails(text)
    \/ ClearPaintFails
    \/ \E i \in 1..Len(tasks) : TaskStartPaintFails(i)
    \/ \E i \in 1..Len(tasks) : TaskWakePaintFails(i)

SpecPaintFault == InitShow /\ [][NextPaintFault]_vars

\* ---------------------------------------------------------- progress bar
\* show_progress_bar draws the label, the bar and the percentage: the device
\* shows a progress bar.
render_progress_bar(scr) == "progress"

\* show_progress_bar(progress, label, duration) with a duration for which
\* `if duration:` is false (None or 0): paint and return. self.current_task is
\* neither read nor written.
ShowProgressBar(duration) ==
    /\ ~Truthy(duration)
    /\ screen' = render_progress_bar(screen)
    /\ lastCall' = [op |-> "show_progress_bar", text |-> "progress",
                    duration |-> duration]
    /\ atReturn' = TRUE
    /\ UNCHANGED <<tasks, current_task>>
    /\ UNCHANGED deviceVars
    /\ UNCHANGED canvas
    /\ UNCHANGED inputVars

NextProgress ==
    \/ \E duration \in {None, Some(0)} : ShowProgressBar(duration)
    \/ NextDisplay

SpecProgress == InitShow /\ [][NextProgress]_vars

\* ------------------------------------------------------- layout: _draw_text
\* draw.textbbox((0, 0), line, font=font): the left and right edge of the box
\* the font gives a line. A line is known by its box.
BBox(left, right) == [left |-> left, right |-> right]

\* text_width = bbox[2] - bbox[0]
text_width(bbox) == bbox.right - bbox.left

\* Division that rounds towards zero.
truncdiv(a, b) == IF a >= 0 THEN a \div b ELSE -((-a) \div b)

\* Python's a // b for b > 0: the quotient rounded down.
floordiv(a, b) == a \div b

\* draw.text((x, y), line, font=font, fill=255)
DrawCall(x, y, line) == [x |-> x, y |-> y, line |-> line]

\* _draw_text(draw, text, font, position, center), with lines = text.split('\n'):
\* the draw.text calls it makes, in order (line i of the code is lines[i + 1]).
draw_text(lines, position, center) ==
    IF center /\ position = None
    THEN LET total_height == Len(lines) * LINE_HEIGHT
             start_y == floordiv(height - total_height, 2)
         IN [i \in 1..Len(lines) |->
                DrawCall(floordiv(width - text_width(lines[i]), 2),
                         start_y + (i - 1) * LINE_HEIGHT,
                         lines[i])]
    ELSE LET xy == IF position # None THEN position[1] ELSE <<0, 0>>
         IN [i \in 1..Len(lines) |->
                DrawCall(xy[1], xy[2] + (i - 1) * LINE_HEIGHT, lines[i])]

\* Measured widths: a line with an odd number of pixels to spare, and a line
\* wider than the display.
Widths == {width \div 2 - 1, width + 3}
Boxes == {BBox(l, l + w) : l \in 0..MaxBearing, w \in Widths}

\* text.split('\n') has at least one line.
LineLists == UNION {[1..n -> Boxes] : n \in 1..MaxLines}
Positions == {None, Some(<<0, 0>>), Some(<<width \div 2, height \div 2>>)}

\* A call of _draw_text about to be made, with any text, position and center.
InitLayout ==
    /\ InitInput
    /\ InitDisplay
    /\ canvas \in [lines : LineLists, position : Positions, center : BOOLEAN,
                    drawn : {<<>>}, returned : {FALSE}]

\* The call runs.
DrawText ==
    /\ ~canvas.returned
    /\ canvas' = [canvas EXCEPT
                     !.drawn = draw_text(canvas.lines, canvas.position,
                                         canvas.center),
                     !.returned = TRUE]
    /\ UNCHANGED <<screen, tasks, current_task, lastCall, atReturn, deviceVars>>
    /\ UNCHANGED inputVars

NextLayout == DrawText

SpecLayout == InitLayout /\ [][NextLayout]_vars

\* ======================================================= claims: data cache
Filters == {None} \cup {Some(k) : k \in Kinds}

\* Every (source, kind) pair but p has seen no add_data of p's kind.
OnlySourceOfKind(p) ==
    \A s \in Sources : s # p[1] => lastAdded[<<s, p[2]>>] = None

\* C1: after any sequence of add_data calls and pruning passes the resident
\* collection holds at most one record for each (source, kind) pair.
C1_AtMostOnePerSourceKind ==
    \A i, j \in 1..Len(current_data) :
        (/\ current_data[i].source = current_data[j].source
         /\ current_data[i].data_type = current_data[j].data_type) => i = j

\* C1 witness: two add_data calls for the same (source, kind) were made and
\* one record of that pair is resident.
C1_Witness ==
    /\ added = 2
    /\ lastOp = "add_data"
    /\ Len(current_data) = 1
    /\ Cardinality({p \in Sources \X Kinds : lastAdded[p] # None}) = 1

\* C2: when every add_data call of a kind had the same (source, kind) and the
\* record of the most recent of them has not expired, get_latest_data(kind)
\* returns that record; and whatever get_latest_data returns is the record of
\* the most recent add_data of its (source, kind), never a superseded one.
C2_LatestIsMostRecentAdd ==
    /\ \A p \in Sources \X Kinds :
          (/\ OnlySourceOfKind(p)
           /\ lastAdded[p] # None
           /\ ~is_expired(lastAdded[p][1], now))
          => get_latest_data(current_data, p[2]) = lastAdded[p]
    /\ \A k \in Kinds :
          LET latest == get_latest_data(current_data, k)
          IN latest # None => lastAdded[<<latest[1].source, k>>] = latest

\* C2 witness: two add_data calls with the same (source, kind), the second
\* record unexpired and returned by get_latest_data.
C2_Witness ==
    /\ added = 2
    /\ \E p \in Sources \X Kinds :
          /\ OnlySourceOfKind(p)
          /\ \A q \in Sources \X Kinds : q # p => lastAdded[q] = None
          /\ lastAdded[p] # None
          /\ ~is_expired(lastAdded[p][1], now)
          /\ get_latest_data(current_data, p[2]) = lastAdded[p]

\* C3 (the claim as stated): get_current_data and get_latest_data never
\* return a record whose expires_at is earlier than the time of the read.
C3_ReadsNeverReturnExpired ==
    /\ \A f \in Filters :
          \A d \in Range(get_current_data(current_data, f)) : ~is_expired(d, now)
    /\ \A k \in Kinds :
          LET latest == get_latest_data(current_data, k)
          IN latest # None => ~is_expired(latest[1], now)

\* C4: in the state a pruning pass leaves, no resident record has its
\* expires_at in the past, and get_current_data (with or without a kind
\* filter) returns none.
C4_PruningRemovesExpired ==
    lastOp = "clean" =>
        /\ \A d \in Range(current_data) : ~is_expired(d, now)
        /\ \A f \in Filters :
              \A d \in Range(get_current_data(current_data, f)) : ~is_expired(d, now)

\* C4 witness: a pruning pass has just removed an expired record and kept
\* an unexpired one.
C4_Witness ==
    /\ lastOp = "clean"
    /\ pruned > 0
    /\ Len(current_data) > 0

\* ====================================================== claims: update loop
\* C5: the fetch failure that brings the run of consecutive failures to
\* max_errors sets running to False and ends its loop task; a failure that
\* leaves the run shorter leaves running as it was and the loop waiting out
\* the backoff; a loop task that has ended stays ended, and no fetch is
\* begun while running is False.
C5_FailStop ==
    [][\A l \in 1..Len(loops) :
          /\ (/\ loops[l].pc = "fetching"
              /\ loops'[l].pc # "fetching"
              /\ consecFails' = consecFails + 1)
             => IF consecFails' >= max_errors
                THEN ~running' /\ loops'[l].pc = "exited"
                ELSE running' = running /\ loops'[l].pc = "backoff"
          /\ loops[l].pc = "exited" => loops'[l].pc = "exited"
          /\ (loops[l].pc # "fetching" /\ loops'[l].pc = "fetching") => running
      ]_vars

\* C5 witness: the max_errors-th consecutive failure has just stopped the
\* runtime and ended the loop.
C5_Witness ==
    /\ lastOp = "fetch_fail"
    /\ consecFails = max_errors
    /\ ~running
    /\ \E l \in 1..Len(loops) : loops[l].pc = "exited"

\* C6: a successful fetch leaves error_count at 0; error_count decreases in
\* no other step; and error_count is the number of failures since the last
\* success, so failures separated by a success do not add up.
C6_ErrorCountResets ==
    [][/\ lastOp' = "fetch_ok" => error_count' = 0
       /\ error_count' < error_count => lastOp' = "fetch_ok"
       /\ error_count' = consecFails'
      ]_vars

\* C6 witness: a successful fetch has just reset a non-zero error count.
C6_Witness ==
    /\ lastOp = "fetch_ok"
    /\ resetFrom > 0
    /\ error_count = 0

\* ========================================================= claims: display
TimedShow(call) == call.op = "show_text" /\ Truthy(call.duration)
UntimedShow(call) == call.op = "show_text" /\ ~Truthy(call.duration)

\* C7: while the latest call is a show_text with no duration, its text is
\* displayed and no timed presentation issued before it is still pending:
\* the auto-clear armed for an earlier show_text(A, duration) never clears it.
C7_UntimedShowStays ==
    UntimedShow(lastCall) =>
        /\ screen = lastCall.text
        /\ \A i \in 1..Len(tasks) : done(tasks[i])

\* C7 witness: show_text(A, duration) was painted and slept for part of its
\* duration, show_text(B) then cancelled it, and time has passed since.
C7_Witness ==
    /\ UntimedShow(lastCall)
    /\ ~atReturn
    /\ current_task # 0
    /\ LET t == tasks[current_task]
       IN /\ t.pc = "cancelled"
          /\ t.painted
          /\ t.text # lastCall.text
          /\ 0 < t.remaining
          /\ t.remaining < t.duration
    /\ screen = lastCall.text

\* C8 (the claim as stated): after clear() the display stays blank until the
\* next show.
C8_ClearStaysBlank ==
    lastCall.op = "clear" => screen = "blank"

\* The timed presentation of the latest call, when that call is a timed show.
Latest(i) == current_task = i /\ TimedShow(lastCall)

\* C9: with show_text(content, duration) the latest call, the content is
\* displayed from its paint for as long as its task sleeps, the task ends
\* only when the whole duration has been slept, the display is blank once it
\* has ended, and it does end unless a later show or clear comes first.
C9_AutoClear ==
    /\ [](\A i \in 1..Len(tasks) :
             Latest(i) =>
                /\ tasks[i].pc = "sleeping" => screen = tasks[i].text
                /\ tasks[i].pc = "done" =>
                      screen = "blank" /\ tasks[i].remaining = 0)
    /\ \A i \in 1..MaxTasks :
          (i <= Len(tasks) /\ Latest(i))
             ~> (\/ ~Latest(i)
                 \/ tasks[i].pc = "done" /\ screen = "blank")

\* C9 witness: the latest call is a timed show, it was painted, its duration
\* has elapsed and the display has been cleared.
C9_Witness ==
    /\ TimedShow(lastCall)
    /\ current_task # 0
    /\ tasks[current_task].pc = "done"
    /\ tasks[current_task].painted
    /\ tasks[current_task].duration = MaxDuration
    /\ screen = "blank"

\* C10 (the claim as stated): when show_text returns, its text is displayed,
\* with or without a duration; and a timed show that was superseded has
\* been painted.
C10_ShowPaintsBeforeReturn ==
    /\ (atReturn /\ lastCall.op = "show_text") => screen = lastCall.text
    /\ \A i \in 1..Len(tasks) : tasks[i].pc = "cancelled" => tasks[i].painted

\* =================================================== claims: start and stop
\* C11: start() on an instance that is already running is a no-op: the step
\* creates no loop task, so a running instance has exactly one.
C11_StartWhileRunningIsNoOp ==
    [][(running /\ lastOp' = "start") => loops' = loops]_vars

\* C12: start() on a disabled instance is a no-op: running stays false, no
\* loop task exists, and nothing is ever fetched, counted as a failure or
\* stored.
C12_DisabledStartIsNoOp ==
    ~enabled =>
        /\ ~running
        /\ loops = <<>>
        /\ last_update = None
        /\ error_count = 0
        /\ current_data = <<>>

\* start() has just been called on a disabled instance, some time after
\* construction.
C12_Witness ==
    /\ ~enabled
    /\ lastOp = "start"
    /\ now > 0

\* C13: stop() is idempotent: a second stop() leaves the state the first one
\* left, and the cleanup hook runs once, not once per call.
C13_StopIdempotent ==
    /\ cleanups <= 1
    /\ lastOp = "stop" => ~running

\* C16: once stop() has set running to False, a loop task that is waiting
\* reaches its `while self.running` test within
\* min(update_interval, sleep ceiling), whether it waits in the regular sleep
\* or in the backoff after a failure.
C16_StopLatencyBounded ==
    ~running =>
        \A l \in 1..Len(loops) :
            loops[l].pc \in {"sleeping", "backoff"} =>
                loops[l].wake - now <= Min(update_interval, SLEEP_CEILING)

\* C17: while running is False, no step but a call of start() makes it True
\* again, creates a loop task or begins a fetch.
C17_StoppedIsTerminal ==
    [][(~running /\ lastOp' # "start") =>
          /\ ~running'
          /\ Len(loops') = Len(loops)
          /\ \A l \in 1..Len(loops) :
                 loops'[l].pc = "fetching" => loops[l].pc = "fetching"]_vars

\* stop() was called on a started instance, its loop task has ended, and
\* time has passed since.
C17_Witness ==
    /\ ~running
    /\ cleanups >= 1
    /\ loops # <<>>
    /\ \A l \in 1..Len(loops) : loops[l].pc = "exited"
    /\ lastOp = "tick"
    /\ last_update # None

\* ======================================================== claims: listeners
\* The listeners whose callback raises.
FailingListeners == {i \in 1..Len(data_listeners) : data_listeners[i].fails}

\* The records the invocations in calls were made with.
FannedOut(calls) == {calls[k].data : k \in 1..Len(calls)}

C15_FanOutInOrder ==
    lastOp = "add_data" =>
        \E p \in Sources \X Kinds :
            /\ lastAdded[p] # None
            /\ fanout = [i \in 1..Len(data_listeners) |->
                             Call(i, lastAdded[p][1], current_data)]
            /\ \E k \in 1..Len(current_data) :
                   /\ current_data[k] = lastAdded[p][1]
                   /\ \A j \in 1..Len(current_data) :
                          (/\ current_data[j].source = p[1]
                           /\ current_data[j].data_type = p[2]) => j = k

\* The second of two add_data calls superseded the record of the first, and
\* both of two registered callbacks were invoked with it.
C15_Witness ==
    /\ lastOp = "add_data"
    /\ added = 2
    /\ Len(current_data) = 1
    /\ Len(data_listeners) = 2
    /\ Len(fanout) = 2

\* ================================== claims: shutdown, brightness, paint errors
\* C18: shutdown() cancels the pending auto-clear and clears the display:
\* from its return until the next call the display is blank and no task of an
\* earlier timed presentation is left to paint or clear.
C18_ShutdownCancelsAndClears ==
    lastCall.op = "shutdown" =>
        /\ screen = "blank"
        /\ \A i \in 1..Len(tasks) : done(tasks[i])

\* shutdown() cancelled a timed presentation that was on the display and
\* whose sleep was already over, and time has passed since.
C18_Witness ==
    /\ lastCall.op = "shutdown"
    /\ ~atReturn
    /\ current_task # 0
    /\ tasks[current_task].pc = "cancelled"
    /\ tasks[current_task].painted
    /\ tasks[current_task].remaining = 0

\* The level nearest to level within the device's range.
Clamped(level) ==
    IF level < BRIGHTNESS_MIN THEN BRIGHTNESS_MIN
    ELSE IF level > BRIGHTNESS_MAX THEN BRIGHTNESS_MAX
    ELSE level

\* C19: set_brightness(level) stores the level clamped to 0..255 and gives
\* the device that value as its contrast, and the step changes neither the
\* displayed content nor the pending timed presentation.
C19_BrightnessClamped ==
    /\ [](lastLevel # None =>
            /\ brightness = Clamped(lastLevel[1])
            /\ contrast # None => contrast = Some(brightness))
    /\ [][lastLevel' # lastLevel =>
            /\ screen' = screen
            /\ tasks' = tasks
            /\ current_task' = current_task]_vars

\* A level below the range was set while a timed presentation was on the
\* display with its auto-clear pending.
C19_Witness ==
    /\ lastLevel = Some(BRIGHTNESS_MIN - 1)
    /\ brightness = BRIGHTNESS_MIN
    /\ contrast = Some(BRIGHTNESS_MIN)
    /\ current_task # 0
    /\ tasks[current_task].pc = "sleeping"
    /\ screen = tasks[current_task].text

\* C20: the exception of a failed paint reaches the caller of the show_text
\* or clear that asked for the paint, with a duration as well as without:
\* it never ends up in a task.
C20_PaintFailureSurfaced ==
    paintError # "task"

\* ==================================================== claims: clock source
\* C21: a fetch of the clock source at time t adds a display_time record
\* that expires at t + 60 s, and once more than 60 s have passed with no
\* further update, get_latest_data("display_time") returns None; stated
\* for a source whose loop has ended, so that no update is due.  (Time
\* moves in ticks of 10 s: the first tick after t + 60 s is t + 70 s.)
C21_ClockRecordExpires ==
    /\ lastOp = "fetch_ok" =>
           get_latest_data(current_data, "display_time")
               = Some(InputData(name, "display_time", now, Some(now + Seconds(60))))
    /\ \A t \in 0..ClockHorizon :
           (/\ last_update = Some(t)
            /\ now > t + Seconds(60)
            /\ \A l \in 1..Len(loops) : loops[l].pc = "exited") =>
               get_latest_data(current_data, "display_time") = None

\* C22: initialize() makes one setup attempt; when the setup fails the error
\* is raised to the caller, and the call neither starts nor stops the
\* runtime: one that was not running is left not running.
C22_InitializeOnce ==
    [][lastOp' = "initialize" =>
          /\ lastInit'.attempts = 1
          /\ lastInit'.raised = ~lastInit'.ok
          /\ running' = running
          /\ loops' = loops]_vars

\* The setup of a runtime that was never started has just failed.
C22_Witness ==
    /\ lastOp = "initialize"
    /\ ~lastInit.ok
    /\ lastInit.raised
    /\ ~running
    /\ loops = <<>>

\* ====================================================== claims: display races
\* C23: when show_text(B) is issued at the instant the duration of
\* show_text(A, d) is over, the new show wins whichever runs first: the call
\* cancels a task whose sleep is over before that task can clear, an untimed B
\* is on the display when the call returns, and no task older than the
\* latest show is left alive to clear it.
C23_NewShowWins ==
    /\ [](\A i \in 1..Len(tasks) :
             ~done(tasks[i]) => (i = current_task /\ ~UntimedShow(lastCall)))
    /\ [][(atReturn' /\ lastCall'.op = "show_text") =>
            /\ UntimedShow(lastCall') => screen' = lastCall'.text
            /\ \A i \in 1..Len(tasks) :
                   (tasks[i].pc = "sleeping" /\ tasks[i].remaining = 0) =>
                       tasks'[i].pc = "cancelled"]_vars

\* show_text(B) came when the sleep of show_text(A, d) was over and A's task
\* had not yet cleared: the task was cancelled, and B is still displayed
\* after time has passed.
C23_Witness ==
    /\ UntimedShow(lastCall)
    /\ ~atReturn
    /\ current_task # 0
    /\ tasks[current_task].pc = "cancelled"
    /\ tasks[current_task].painted
    /\ tasks[current_task].remaining = 0
    /\ tasks[current_task].text # lastCall.text
    /\ screen = lastCall.text

\* C24: show_text and clear are serialized, so that after any interleaving
\* the display holds the content of the last completed show_text, or nothing
\* after a clear; a timed presentation may have ended and left it blank.
C24_LastCallDecidesContent ==
    /\ lastCall.op = "clear" => screen = "blank"
    /\ UntimedShow(lastCall) => screen = lastCall.text
    /\ TimedShow(lastCall) =>
           \/ screen = lastCall.text
           \/ screen = "blank" /\ tasks[current_task].pc = "done"

\* C25: a fetch begins only when no update has succeeded yet or at least
\* update_interval has passed since last_update, and a successful fetch sets
\* last_update to the time it returns at: two successful fetches are never
\* less than update_interval apart.
C25_FetchesAnIntervalApart ==
    /\ [][lastOp' = "fetch_begin" => should_update(last_update, now)]_vars
    /\ [][lastOp' = "fetch_ok" =>
            /\ last_update' = Some(now)
            /\ last_update # None => now - last_update[1] >= update_interval]_vars

\* ================================================== claims: the loop's cycle
\* C26: a loop task whose fetch failed short of max_errors waits 30 s from
\* the failure, whatever update_interval is, and does nothing (no fetch, no
\* test of running) before that time.
C26_BackoffBeforeRetry ==
    [][\A l \in 1..Len(loops) :
          /\ (loops[l].pc = "fetching" /\ loops'[l].pc = "backoff") =>
                 loops'[l].wake = now + Seconds(30)
          /\ (loops[l].pc = "backoff" /\ loops'[l].pc # "backoff") =>
                 now >= loops[l].wake]_vars

\* The first fetch of the only loop task failed, and the task has begun its
\* second fetch, 30 s or more later.
C26_Witness ==
    /\ Len(loops) = 1
    /\ loops[1].pc = "fetching"
    /\ lastOp = "fetch_begin"
    /\ consecFails = 1
    /\ last_update = None
    /\ now >= Seconds(30)

\* C27: every cycle of a running loop prunes, the cycles whose fetch failed
\* included: when a fetch has failed and the loop goes on, no expired record
\* is resident.
C27_FailedCyclePrunes ==
    [][(lastOp' = "fetch_fail" /\ running') =>
          \A d \in Range(current_data') : ~is_expired(d, now)]_vars

\* ------------------------------------------------------------------------
\* claims: reading the collection
\* ------------------------------------------------------------------------

\* The positions of the resident records of one data_type whose timestamp is
\* the greatest of that data_type.
NewestOfKind(k) ==
    {i \in 1..Len(current_data) :
        /\ current_data[i].data_type = k
        /\ \A j \in 1..Len(current_data) :
               current_data[j].data_type = k =>
                   current_data[j].timestamp <= current_data[i].timestamp}

\* C28: get_latest_data(data_type) returns a resident record of that type with
\* the greatest timestamp, and of several records with that timestamp the one
\* inserted last.
C28_LatestTieLastInserted ==
    \A k \in Kinds :
        /\ NewestOfKind(k) = {} <=> get_latest_data(current_data, k) = None
        /\ NewestOfKind(k) # {} =>
               LET last == CHOOSE i \in NewestOfKind(k) :
                               \A j \in NewestOfKind(k) : j <= i
               IN get_latest_data(current_data, k) = Some(current_data[last])

\* C29: the list returned by get_current_data, with or without a data_type,
\* is not changed by a later add_data or pruning pass (of the loop or not),
\* and a change its caller makes to it does not change self.current_data.
C29_SnapshotOnRead ==
    /\ [][(snapshot # None /\ lastOp' \notin {"read", "caller_change"}) =>
              /\ snapshot' # None
              /\ snapshot'[1].items = snapshot[1].items]_vars
    /\ [][lastOp' = "caller_change" => current_data' = current_data]_vars

\* A pruning pass of the loop has just removed a record; the list a caller
\* read earlier still holds that record, and the collection holds records
\* that the list does not.
C29_Witness ==
    /\ lastOp = "loop_idle"
    /\ pruned > 0
    /\ snapshot # None
    /\ \E d \in Range(snapshot[1].items) :
          /\ is_expired(d, now)
          /\ d \notin Range(current_data)
    /\ \E d \in Range(current_data) : d \notin Range(snapshot[1].items)

\* ------------------------------------------------------------------------
\* claims: layout
\* ------------------------------------------------------------------------

\* C30: with no position and centering requested, line i (from 0) of an
\* n-line text is drawn at x = (width - measured width of the line) div 2 and
\* y = (height - n * 15) div 2 + i * 15, with width 128 and height 64; div
\* rounds down.
C30_CenteringLaw ==
    (canvas.returned /\ canvas.center /\ canvas.position = None) =>
        LET n == Len(canvas.lines)
        IN /\ Len(canvas.drawn) = n
           /\ \A i \in 0..(n - 1) :
                 LET line == canvas.lines[i + 1]
                     call == canvas.drawn[i + 1]
                 IN /\ call.line = line
                    /\ call.x = (128 - (line.right - line.left)) \div 2
                    /\ call.y = (64 - n * 15) \div 2 + i * 15

\* A centred text of five lines has been drawn: it is taller than the
\* display, one line is wider than the display, and one has an odd number of
\* pixels to spare.
C30_Witness ==
    /\ canvas.returned /\ canvas.center /\ canvas.position = None
    /\ Len(canvas.drawn) = 5
    /\ canvas.drawn[1].y < 0
    /\ \E i \in 1..5 : canvas.drawn[i].x < 0 /\ canvas.lines[i].left > 0
    /\ \E i \in 1..5 :
          /\ canvas.drawn[i].x > 0
          /\ (width - text_width(canvas.lines[i])) % 2 = 1

\* ------------------------------------------------------------------------
\* claims: the loop tasks of one runtime
\* ------------------------------------------------------------------------

\* The loop tasks that have not ended.
AliveLoops == {l \in 1..Len(loops) : loops[l].pc # "exited"}

\* C31: whatever start() and stop() calls were made, at most one loop task of
\* the runtime is alive; a stop() followed by a start() before the old task
\* has seen running False does not leave two tasks fetching.
C31_AtMostOneLoopAlive == Cardinality(AliveLoops) <= 1

\* C32: error_count is between 0 and max_errors in every state, and it is
\* max_errors only when the runtime has stopped on its errors (running False).
C32_ErrorCountWithinBound ==
    /\ error_count \in 0..max_errors
    /\ error_count = max_errors => ~running

\* C33: once stop() has returned (running False, the cleanup hook called), no
\* step of the loop adds a record, notifies a listener or changes
\* last_update, a fetch that was suspended at the time of the stop included.
C33_QuietAfterStop ==
    [][(~running /\ cleanups >= 1 /\ lastOp' \notin {"start", "stop"}) =>
          /\ last_update' = last_update
          /\ lastAdded' = lastAdded
          /\ \A d \in Range(current_data') : d \in Range(current_data)
          /\ fanout' = <<>>]_vars

\* C35: a failed fetch leaves last_update as it was, so the first cycle a
\* loop task runs after its backoff calls _fetch_data again whenever an update
\* was due when the fetch failed.
C35_FailedFetchRetried ==
    [][/\ lastOp' = "fetch_fail" => last_update' = last_update
       /\ \A l \in 1..Len(loops) :
             (/\ loops[l].pc = "backoff"
              /\ loops[l].due
              /\ loops'[l].pc \notin {"backoff", "exited"}) =>
                 loops'[l].pc = "fetching"]_vars

\* ------------------------------------------------------------------------
\* claims: progress bar and zero duration
\* ------------------------------------------------------------------------

\* C34: a progress bar shown without a duration supersedes a pending timed
\* text: while show_progress_bar is the latest call and the bar is displayed,
\* no step blanks the display, so the auto-clear of an earlier
\* show_text(A, duration) does not erase the bar.
C34_ProgressBarSupersedes ==
    [][(/\ lastCall.op = "show_progress_bar"
        /\ lastCall'.op = "show_progress_bar"
        /\ screen = "progress") => screen' # "blank"]_vars

====
